---- MODULE Spec2Model ----
(***************************************************************************)
(* Model of the ESP8266 MQTT bridge (src/bridge/esp8266): the channel      *)
(* layer (channel_espnow.py, channel_syncom.py) and the proxy              *)
(* (mqttproxy.py: command dispatcher, subscription registry, connection    *)
(* supervisor), under uasyncio's cooperative scheduling: one action is one *)
(* run-to-completion segment of a task, from one suspension point to the   *)
(* next.                                                                   *)
(*                                                                         *)
(* Reading conventions.                                                    *)
(*  - Strings are sequences of atoms; SEP is one atom. split and argformat *)
(*    are computed on them as str.split and str.join compute.              *)
(*  - Attribute spellings that differ only by the leading underscore       *)
(*    (espnow/_espnow, lmk/_lmk, string_mode/_string_mode) and the         *)
(*    subscript written "subscriptions.[topic]" are read as the attribute  *)
(*    and the subscript they stand for.                                    *)
(*  - channel.broadcast(msg) is not defined under src/; it is read as the  *)
(*    broadcast helper restricted to that one channel.                     *)
(*  - The MQTT client (mqtt_as), the SynCom base class and status_values   *)
(*    are not under src/; the client's connect/publish/subscribe return or *)
(*    raise OSError as the environment decides. The transport delivers     *)
(*    what it is given, except in send_fault, where the radio's send       *)
(*    raises OSError.                                                      *)
(*  - The registry, a dict, is iterated in the order its keys were         *)
(*    inserted: the most favourable reading, MicroPython's dict keeps no   *)
(*    such order.                                                          *)
(*                                                                         *)
(* Specifications: Spec, the whole proxy; SpecSubs, the proxy with its     *)
(* channels in either order and hosts that only subscribe; SpecChan, the   *)
(* channel objects called directly; SpecCodec, argformat and split on      *)
(* their own.                                                              *)
(***************************************************************************)
EXTENDS Integers, Sequences, FiniteSets, TLC

VARIABLES
    channels,       \* MQTTProxy.channels: the list given to the constructor
    running,        \* channel._running
    hosts,          \* channel._hosts (a list)
    life,           \* history: "new", "started" (start called), "stopped" (stop called)
    seen,           \* history: hosts each channel has observed (sender or target)
    apc,            \* an await_obj call made directly on a channel: its position
    subscriptions,  \* MQTTProxy.subscriptions: topic -> [(channel, host, qos)]
    brokerSubs,     \* topics the broker holds a subscription for (this session)
    connected,      \* MQTTClient.isconnected()
    wifi,           \* self._sta_if.isconnected()
    rpc,            \* position of MQTTProxy.run
    i,              \* run's loop variable
    cpc,            \* position of conn_han
    replayed,       \* history: subscribe calls conn_han made since the last connect
    dpc,            \* position of from_channel, per channel
    dcur,           \* from_channel's locals (host, s) while it is suspended
    events,         \* the calls made by the last action, in order
    attempts,       \* history: connect() calls made by run
    failBroadcasts, \* history: broadcast(STATUS, BROKER_FAIL) calls
    resets,         \* history: machine_reset() calls
    epoch,          \* history: reconnects so far
    ncmd,           \* history: commands the dispatchers have received
    subscribed,     \* history: (topic, channel, host) of every SUBSCRIBE whose
                    \* broker call returned
    recorded,       \* history: (topic, qos) of the entries recorded, in order
    codec           \* the codec exercised on its own: stage, inputs, results

vars == <<channels, running, hosts, life, seen, apc, subscriptions, brokerSubs,
          connected, wifi, rpc, i, cpc, replayed, dpc, dcur, events,
          attempts, failBroadcasts, resets, epoch, ncmd, subscribed, recorded, codec>>

(***************************************************************************)
(* Bounds of the model.                                                    *)
(***************************************************************************)
\* most commands the hosts send
MaxCmds == 2
\* most dispatchers suspended in a broker operation at the same time
MaxInFlight == 1
\* most broker losses followed by a reconnect
MaxReconnects == 1

(***************************************************************************)
(* Program constants.                                                      *)
(***************************************************************************)
\* run(): for i in range(12, 0, -1)
RetryBudget == 12

\* status_values (imported with *): the separator, the verbs, the codes
SEP == ","
PUBLISH == "PUBLISH"
SUBSCRIBE == "SUBSCRIBE"
MEM == "MEM"
TIME == "TIME"
STATUS == "STATUS"
SUBSCRIPTION == "SUBSCRIPTION"
WIFI_UP == "WIFI_UP"
WIFI_DOWN == "WIFI_DOWN"
BROKER_OK == "BROKER_OK"
BROKER_FAIL == "BROKER_FAIL"
RUNNING == "RUNNING"
PUBOK == "PUBOK"
UNKNOWN == "UNKNOWN"

Range(s) == {s[k] : k \in 1..Len(s)}

(***************************************************************************)
(* Values and their formatting: '{}'.format(x) is str(x).                  *)
(***************************************************************************)
StrV(x) == [k |-> "str", s |-> x, n |-> 0, b |-> FALSE]
IntV(x) == [k |-> "int", s |-> <<>>, n |-> x, b |-> FALSE]
BoolV(x) == [k |-> "bool", s |-> <<>>, n |-> 0, b |-> x]

DigitAtom == <<"0", "1", "2", "3", "4", "5", "6", "7", "8", "9">>

RECURSIVE IntStr(_)
IntStr(n) ==
    IF n < 10 THEN <<DigitAtom[n + 1]>>
    ELSE IntStr(n \div 10) \o <<DigitAtom[(n % 10) + 1]>>

Format(v) ==
    CASE v.k = "str" -> v.s
      [] v.k = "int" -> IntStr(v.n)
      [] v.k = "bool" -> IF v.b THEN <<"True">> ELSE <<"False">>

\* SEP.join(['{}' ...]).format(*a)
RECURSIVE argformatMutTrailingSep(_)
argformatMutTrailingSep(a) ==
    IF a = <<>> THEN <<>>
    ELSE Format(a[1]) \o <<SEP>> \o argformatMutTrailingSep(Tail(a))
RECURSIVE argformat(_)
argformat(a) ==
    IF a = <<>> THEN <<>>
    ELSE IF Len(a) = 1 THEN Format(a[1])
    ELSE Format(a[1]) \o <<SEP>> \o argformat(Tail(a))

\* istr.split(SEP): the fields between separators; "" splits to ['']
RECURSIVE split(_)
split(str) ==
    IF str = <<>> THEN << <<>> >>
    ELSE LET r == split(Tail(str)) IN
         IF Head(str) = SEP THEN << <<>> >> \o r
         ELSE << <<Head(str)>> \o r[1] >> \o Tail(r)

\* int(x) of a field: defined on decimal digits, ValueError otherwise
IsDigit(a) == \E d \in 1..10 : DigitAtom[d] = a
DigitVal(a) == (CHOOSE d \in 1..10 : DigitAtom[d] = a) - 1
IsInt(f) == f # <<>> /\ \A k \in 1..Len(f) : IsDigit(f[k])
RECURSIVE int(_)
int(f) ==
    IF Len(f) = 1 THEN DigitVal(f[1])
    ELSE 10 * int(SubSeq(f, 1, Len(f) - 1)) + DigitVal(f[Len(f)])

\* bool(x) of a string: true iff the string is not empty
bool(f) == f # <<>>

(***************************************************************************)
(* The configuration: two channels, their possible hosts.                  *)
(***************************************************************************)
Channels == {"espnow", "syncom"}
IsESPNow(c) == c = "espnow"
SynComHost == "SynCom"
HostsOf(c) == IF IsESPNow(c) THEN {"h1", "h2"} ELSE {SynComHost}
\* hosts a caller may name in send(); "h3" never sends anything itself
Targets == {"h1", "h2", "h3", SynComHost}

(***************************************************************************)
(* Events: the calls an action makes, in order.                            *)
(***************************************************************************)
Ev(e, c, h, m, t, p, r, q) ==
    [ev |-> e, ch |-> c, host |-> h, msg |-> m,
     topic |-> t, payload |-> p, retain |-> r, qos |-> q]
SendEv(c, h, m) == Ev("send", c, h, m, <<>>, <<>>, FALSE, 0)
BroadcastEv(m) == Ev("broadcast", "-", "-", m, <<>>, <<>>, FALSE, 0)
PublishEv(t, p, r, q) == Ev("publish", "-", "-", <<>>, t, p, r, q)
SubscribeEv(t, q) == Ev("subscribe", "-", "-", <<>>, t, <<>>, FALSE, q)
MarkEv(e, c) == Ev(e, c, "-", <<>>, <<>>, <<>>, FALSE, 0)

(***************************************************************************)
(* Channel layer.                                                          *)
(***************************************************************************)
\* ChannelESPNow.__init__: _hosts = []; ChannelSynCom.__init__: _hosts = ["SynCom"]
InitHosts(c) == IF IsESPNow(c) THEN <<>> ELSE <<SynComHost>>

\* ChannelESPNow.send: if host not in self.hosts: self.hosts.append(bytes(host))
ESPNowSendHostsMutAlways(hs, h) == Append(hs, h)
ESPNowSendHosts(hs, h) == IF h \in Range(hs) THEN hs ELSE Append(hs, h)

\* ChannelSynCom.send(self, _, obj): the host argument is ignored
SynComSendHosts(hs, h) == hs

\* channel.send(host, obj): what it does to the host list
SendHosts(c, hs, h) ==
    IF IsESPNow(c) THEN ESPNowSendHosts(hs, h) ELSE SynComSendHosts(hs, h)

\* ChannelESPNow.await_obj, on a message from host: the same registration
AwaitObjHosts(c, hs, h) ==
    IF IsESPNow(c)
    THEN (IF h \in Range(hs) THEN hs ELSE Append(hs, h))
    ELSE hs

\* await_obj's loop test, at the call and after every sleep: while self._running
AwaitObjGoesOnMutOnce(c, first) == IF first THEN running[c] ELSE TRUE
AwaitObjGoesOn(c, first) == running[c]

\* the host lists after a list of send events
RECURSIVE ApplySends(_, _)
ApplySends(hs, evs) ==
    IF evs = <<>> THEN hs
    ELSE LET e == Head(evs) IN
         ApplySends(IF e.ev = "send"
                    THEN [hs EXCEPT ![e.ch] = SendHosts(e.ch, @, e.host)]
                    ELSE hs,
                    Tail(evs))

\* the hosts a list of events names as targets of send, per channel
SentTo(evs, c) ==
    {evs[k].host : k \in {j \in 1..Len(evs) : evs[j].ev = "send" /\ evs[j].ch = c}}

SeenAfter(sn, evs) == [c \in Channels |-> sn[c] \cup SentTo(evs, c)]

\* for host in channel.hosts: channel.send(host, msg)
ChannelBroadcast(c, hs, msg) == [k \in 1..Len(hs[c]) |-> SendEv(c, hs[c][k], msg)]

\* MQTTProxy.broadcast: for channel in self.channels: for host in channel.hosts
broadcastMutLastOnly(chs, hs, msg) ==
    IF chs = <<>> THEN <<>> ELSE ChannelBroadcast(chs[Len(chs)], hs, msg)
RECURSIVE broadcast(_, _, _)
broadcast(chs, hs, msg) ==
    IF chs = <<>> THEN <<>>
    ELSE ChannelBroadcast(Head(chs), hs, msg) \o broadcast(Tail(chs), hs, msg)

(***************************************************************************)
(* Initial state: the objects as constructed by run.py.                    *)
(***************************************************************************)
NoCmd == [host |-> "-", s |-> <<>>]
ConnIdle == [pc |-> "idle", ti |-> 0, ii |-> 0]
NoCodec == [stage |-> "unused", verb |-> <<>>, args |-> <<>>, wire |-> <<>>, fields |-> <<>>]

\* MQTTProxy.__init__: self.subscriptions = {}
InitSubscriptionsMutPreloaded ==
    << [topic |-> <<"t1">>,
        items |-> << [channel |-> "syncom", host |-> SynComHost, qos |-> 1],
                     [channel |-> "espnow", host |-> "h1", qos |-> 1] >>] >>
InitSubscriptions == <<>>

\* all but the list of channels given to the constructor
InitRest ==
    /\ running = [c \in Channels |-> FALSE]
    /\ hosts = [c \in Channels |-> InitHosts(c)]
    /\ life = [c \in Channels |-> "new"]
    /\ seen = [c \in Channels |-> {}]
    /\ apc = [c \in Channels |-> "none"]
    /\ subscriptions = InitSubscriptions
    /\ brokerSubs = {}
    /\ connected = FALSE
    /\ wifi = FALSE
    /\ rpc = "init"
    /\ i = RetryBudget
    /\ cpc = ConnIdle
    /\ replayed = <<>>
    /\ dpc = [c \in Channels |-> "unstarted"]
    /\ dcur = [c \in Channels |-> NoCmd]
    /\ events = <<>>
    /\ attempts = 0
    /\ failBroadcasts = 0
    /\ resets = 0
    /\ epoch = 0
    /\ ncmd = 0
    /\ subscribed = {}
    /\ recorded = <<>>

\* MQTTProxy([ChannelESPNow(pmk, lmk), ChannelSynCom()], config)
Init ==
    /\ channels = <<"espnow", "syncom">>
    /\ codec = NoCodec
    /\ InitRest

proxyVars == <<codec, recorded, channels, subscriptions, brokerSubs, connected, wifi, rpc, i, cpc,
               replayed, dpc, dcur, attempts, failBroadcasts, resets, epoch, ncmd,
               subscribed>>

(***************************************************************************)
(* The channel contract exercised directly (SpecChan): start, stop, send   *)
(* and await_obj called on the channel objects by a caller that, as the    *)
(* contract asks, calls start once and before any send or receive.         *)
(* ChannelSynCom inherits start, stop and await_obj from SynCom, which is  *)
(* not under src/: only its send and its host list are exercised here.     *)
(***************************************************************************)
\* ChannelESPNow.start: self._espnow.init(); self._running = True
start(c) ==
    /\ IsESPNow(c)
    /\ life[c] = "new"
    /\ running' = [running EXCEPT ![c] = TRUE]
    /\ life' = [life EXCEPT ![c] = "started"]
    /\ events' = <<MarkEv("start", c)>>
    /\ UNCHANGED <<hosts, seen, apc, proxyVars>>

\* ChannelESPNow.stop: self._espnow.deinit(); self._running = False
stop(c) ==
    /\ IsESPNow(c)
    /\ life[c] = "started"
    /\ running' = [running EXCEPT ![c] = FALSE]
    /\ life' = [life EXCEPT ![c] = "stopped"]
    /\ events' = <<MarkEv("stop", c)>>
    /\ UNCHANGED <<hosts, seen, apc, proxyVars>>

\* channel.send(host, obj) by a caller
send(c, h) ==
    /\ IsESPNow(c) => life[c] # "new"
    /\ hosts' = [hosts EXCEPT ![c] = SendHosts(c, @, h)]
    /\ seen' = [seen EXCEPT ![c] = @ \cup {h}]
    /\ events' = <<SendEv(c, h, <<"obj">>)>>
    /\ UNCHANGED <<running, life, apc, proxyVars>>

\* ChannelESPNow.send, lines 76-82: the try around self._espnow.send. The
\* clause "except OSError('ESP_ERR_ESPNOW_IF')" names an instance, not a
\* class: when an OSError reaches it the match itself raises TypeError, and a
\* build that lets the match fail leaves the OSError to go on. In neither is
\* the handler body, self._iface.active(True), run.
ExceptClauseIsClass == FALSE
SendFaultOutcomes ==
    IF ExceptClauseIsClass THEN {"returned"} ELSE {"TypeError", "OSError"}

\* channel.send(host, obj) when the transport raises OSError (interface not
\* ready) in self._espnow.send: the host has been registered by then
send_fault(c, h) ==
    /\ IsESPNow(c)
    /\ life[c] # "new"
    /\ hosts' = [hosts EXCEPT ![c] = SendHosts(c, @, h)]
    /\ seen' = [seen EXCEPT ![c] = @ \cup {h}]
    /\ \E out \in SendFaultOutcomes :
          events' = <<SendEv(c, h, <<"obj">>), MarkEv("transport_fault", c)>>
                    \o (IF out = "returned"
                        THEN <<MarkEv("iface_active", c), MarkEv("send_returned", c)>>
                        ELSE <<Ev("send_raised", c, h, <<out>>, <<>>, <<>>, FALSE, 0)>>)
    /\ UNCHANGED <<running, life, apc, proxyVars>>

\* One pass of await_obj's loop: the test of _running, then irecv(0), then
\* either the return of (host, msg) or the sleep. first: the pass made by the
\* call itself; otherwise the pass made on waking from sleep_ms.
await_obj_pass(c, first) ==
    /\ IsESPNow(c)
    /\ IF ~AwaitObjGoesOn(c, first)
       THEN /\ apc' = [apc EXCEPT ![c] = "none_returned"]
            /\ events' = <<Ev("await_none", c, "-", <<IF first THEN "call" ELSE "wake">>,
                              <<>>, <<>>, FALSE, 0)>>
            /\ UNCHANGED <<hosts, seen>>
       ELSE \/ \E h \in HostsOf(c) :
                 /\ hosts' = [hosts EXCEPT ![c] = AwaitObjHosts(c, @, h)]
                 /\ seen' = [seen EXCEPT ![c] = @ \cup {h}]
                 /\ apc' = [apc EXCEPT ![c] = "msg_returned"]
                 /\ events' = <<Ev("recv", c, h, <<"obj">>, <<>>, <<>>, FALSE, 0)>>
            \/ /\ apc' = [apc EXCEPT ![c] = "sleeping"]
               /\ events' = <<MarkEv("await_sleep", c)>>
               /\ UNCHANGED <<hosts, seen>>
    /\ UNCHANGED <<running, life, proxyVars>>

\* a caller calls await_obj
await_obj_call(c) ==
    /\ life[c] # "new"
    /\ apc[c] # "sleeping"
    /\ await_obj_pass(c, TRUE)

\* an await_obj in flight wakes from asyncio.sleep_ms(t_ms)
await_obj_wake(c) ==
    /\ apc[c] = "sleeping"
    /\ await_obj_pass(c, FALSE)

NextChan ==
    \/ \E c \in Channels : start(c)
    \/ \E c \in Channels : stop(c)
    \/ \E c \in Channels, h \in Targets : send(c, h)
    \/ \E c \in Channels, h \in Targets : send_fault(c, h)
    \/ \E c \in Channels : await_obj_call(c)
    \/ \E c \in Channels : await_obj_wake(c)

SpecChan == Init /\ [][NextChan]_vars

(***************************************************************************)
(* Subscription registry: a dict topic -> list of (channel, host, qos),    *)
(* kept here as the list of its keys in insertion order with their lists.  *)
(***************************************************************************)
HasKey(subs, t) == \E k \in 1..Len(subs) : subs[k].topic = t
KeyIndex(subs, t) == CHOOSE k \in 1..Len(subs) : subs[k].topic = t
Items(subs, t) == subs[KeyIndex(subs, t)].items
Item(c, h, q) == [channel |-> c, host |-> h, qos |-> q]

\* from_channel, SUBSCRIBE: if topic not in self.subscriptions: ... = [];
\* self.subscriptions[topic].append((channel, host, int(s[2])))
recordMutReplace(subs, t, it) ==
    LET s0 == IF HasKey(subs, t) THEN subs
              ELSE Append(subs, [topic |-> t, items |-> <<>>])
    IN [s0 EXCEPT ![KeyIndex(s0, t)].items = <<it>>]
record(subs, t, it) ==
    LET s0 == IF HasKey(subs, t) THEN subs
              ELSE Append(subs, [topic |-> t, items |-> <<>>])
    IN [s0 EXCEPT ![KeyIndex(s0, t)].items = Append(@, it)]

(***************************************************************************)
(* What hosts send: the strings a transport may deliver.                   *)
(***************************************************************************)
Wire(fields) == argformat([k \in 1..Len(fields) |-> StrV(fields[k])])
W_PUB0 == Wire(<< <<PUBLISH>>, <<"t1">>, <<"p">>, <<"0">>, <<"1">> >>)
W_PUB1 == Wire(<< <<PUBLISH>>, <<"t2">>, <<"p">>, <<"1">>, <<"0">> >>)
W_SUB1 == Wire(<< <<SUBSCRIBE>>, <<"t1">>, <<"1">> >>)
W_SUB2 == Wire(<< <<SUBSCRIBE>>, <<"t2">>, <<"0">> >>)
W_MEM == Wire(<< <<MEM>> >>)
W_TIME == Wire(<< <<TIME>> >>)
W_STATUS == Wire(<< <<STATUS>> >>)
W_UNK == Wire(<< <<"FROBNICATE">>, <<"1">>, <<"2">> >>)
W_SHORT == Wire(<< <<PUBLISH>>, <<"t1">> >>)
W_BADQOS == Wire(<< <<SUBSCRIBE>>, <<"t1">>, <<"x">> >>)
W_EMPTY == <<>>
Wires == {W_PUB0, W_PUB1, W_SUB1, W_SUB2, W_MEM, W_TIME, W_STATUS,
          W_UNK, W_SHORT, W_BADQOS, W_EMPTY}
Topics == { <<"t1">>, <<"t2">> }
Verbs == { <<PUBLISH>>, <<SUBSCRIBE>>, <<MEM>>, <<TIME>>, <<STATUS>> }

Status(code) == argformat(<<StrV(<<STATUS>>), StrV(<<code>>)>>)

(***************************************************************************)
(* Command dispatcher: MQTTProxy.from_channel.                             *)
(***************************************************************************)
\* s[1], s[2], bool(s[3]), int(s[4]) evaluate: no IndexError, no ValueError
PublishArgsOk(s) == Len(s) >= 5 /\ IsInt(s[5])
\* topic, qos = s[1], int(s[2])
SubscribeArgsOk(s) == Len(s) >= 3 /\ IsInt(s[3])

\* the arguments of the publish call
PublishCall(s) == PublishEv(s[2], s[3], bool(s[4]), int(s[5]))

\* the else branch: channel.send(host, argformat(STATUS, UNKNOWN, 'Unknown command:', istr))
UnknownReplyMutVerbOnly(istr) ==
    argformat(<<StrV(<<STATUS>>), StrV(<<UNKNOWN>>), StrV(<<"Unknown command:">>),
                StrV(split(istr)[1])>>)
UnknownReply(istr) ==
    argformat(<<StrV(<<STATUS>>), StrV(<<UNKNOWN>>), StrV(<<"Unknown command:">>),
                StrV(istr)>>)

\* the STATUS branch
StatusReplies(c, h, hs) ==
    <<SendEv(c, h, Status(IF wifi THEN WIFI_UP ELSE WIFI_DOWN))>>
    \o (IF connected
        THEN <<SendEv(c, h, Status(BROKER_OK))>> \o ChannelBroadcast(c, hs, Status(RUNNING))
        ELSE <<>>)

\* One iteration of the loop from the return of await_obj to the next
\* suspension: the position reached and the calls made. "dead": an exception
\* left the coroutine (there is no try in from_channel).
Dispatch(c, h, istr, hs) ==
    LET s == split(istr)
        command == s[1]
    IN CASE command = <<PUBLISH>> ->
              IF PublishArgsOk(s)
              THEN [pc |-> "publish", evs |-> <<PublishCall(s)>>]
              ELSE [pc |-> "dead", evs |-> <<MarkEv("raise", c)>>]
         [] command = <<SUBSCRIBE>> ->
              IF SubscribeArgsOk(s)
              THEN [pc |-> "subscribe", evs |-> <<SubscribeEv(s[2], int(s[3]))>>]
              ELSE [pc |-> "dead", evs |-> <<MarkEv("raise", c)>>]
         [] command = <<MEM>> ->
              [pc |-> "await",
               evs |-> <<SendEv(c, h, argformat(<<StrV(<<MEM>>), StrV(<<"mem_free">>),
                                                  StrV(<<"mem_alloc">>)>>))>>]
         [] command = <<TIME>> ->
              IF connected
              THEN [pc |-> "time", evs |-> <<>>]
              ELSE [pc |-> "await",
                    evs |-> <<SendEv(c, h, argformat(<<StrV(<<TIME>>), IntV(0)>>))>>]
         [] command = <<STATUS>> ->
              [pc |-> "await", evs |-> StatusReplies(c, h, hs)]
         [] OTHER ->
              [pc |-> "await", evs |-> <<SendEv(c, h, UnknownReply(istr))>>]

Suspended == {"publish", "subscribe", "suback", "time"}
InFlight == {c \in Channels : dpc[c] \in Suspended}

\* host, istr = await channel.await_obj(20), then the dispatch on s[0]
\* wires: the strings the hosts may send; most: the most commands they send
from_channel_recv_of(c, wires, most) ==
    /\ rpc = "idle"
    /\ dpc[c] = "await"
    /\ AwaitObjGoesOn(c, FALSE)
    /\ ncmd < most
    /\ ncmd' = ncmd + 1
    /\ \E h \in HostsOf(c), istr \in wires :
          LET hs1 == [hosts EXCEPT ![c] = AwaitObjHosts(c, @, h)]
              out == Dispatch(c, h, istr, hs1)
          IN /\ out.pc \in Suspended => Cardinality(InFlight) < MaxInFlight
             /\ dpc' = [dpc EXCEPT ![c] = out.pc]
             /\ dcur' = [dcur EXCEPT ![c] =
                            IF out.pc \in Suspended
                            THEN [host |-> h, s |-> split(istr)] ELSE NoCmd]
             /\ events' = <<Ev("recv", c, h, istr, <<>>, <<>>, FALSE, 0)>> \o out.evs
             /\ hosts' = ApplySends(hs1, out.evs)
             /\ seen' = SeenAfter([seen EXCEPT ![c] = @ \cup {h}], out.evs)
    /\ UNCHANGED <<codec, recorded, channels, running, life, apc, subscriptions, brokerSubs, connected,
                   wifi, rpc, i, cpc, replayed, attempts, failBroadcasts, resets, epoch,
                   subscribed>>

from_channel_recv(c) == from_channel_recv_of(c, Wires, MaxCmds)

\* an exception leaves from_channel: the task ends
Dies(c) ==
    /\ dpc' = [dpc EXCEPT ![c] = "dead"]
    /\ dcur' = [dcur EXCEPT ![c] = NoCmd]
    /\ events' = <<MarkEv("raise", c)>>
    /\ UNCHANGED <<hosts, seen, subscriptions, brokerSubs>>

\* await self.publish(...) returns, or raises OSError
from_channel_publish(c) ==
    /\ rpc = "idle"
    /\ dpc[c] = "publish"
    /\ \/ /\ connected
          /\ dpc' = [dpc EXCEPT ![c] = "await"]
          /\ dcur' = [dcur EXCEPT ![c] = NoCmd]
          /\ events' = <<MarkEv("publish_returned", c),
                         SendEv(c, dcur[c].host, Status(PUBOK))>>
          /\ hosts' = ApplySends(hosts, events')
          /\ seen' = SeenAfter(seen, events')
          /\ UNCHANGED <<subscriptions, brokerSubs>>
       \/ Dies(c)
    /\ UNCHANGED <<codec, recorded, channels, running, life, apc, connected,
                   wifi, rpc, i, cpc, replayed, attempts, failBroadcasts, resets, epoch, ncmd, subscribed>>

\* await self.subscribe(topic, qos): the broker takes the subscription
\* (SUBACK), then the call returns; or it raises OSError
from_channel_subscribe(c) ==
    /\ rpc = "idle"
    /\ \/ /\ dpc[c] = "subscribe"
          /\ connected
          /\ dpc' = [dpc EXCEPT ![c] = "suback"]
          /\ brokerSubs' = brokerSubs \cup {dcur[c].s[2]}
          /\ events' = <<MarkEv("suback", c)>>
          /\ UNCHANGED <<dcur, hosts, seen, subscriptions, subscribed, recorded>>
       \/ /\ dpc[c] = "suback"
          /\ dpc' = [dpc EXCEPT ![c] = "await"]
          /\ dcur' = [dcur EXCEPT ![c] = NoCmd]
          /\ subscriptions' = record(subscriptions, dcur[c].s[2],
                                     Item(c, dcur[c].host, int(dcur[c].s[3])))
          /\ subscribed' = subscribed \cup {<<dcur[c].s[2], c, dcur[c].host>>}
          /\ recorded' = Append(recorded, [topic |-> dcur[c].s[2],
                                           qos |-> int(dcur[c].s[3])])
          /\ events' = <<MarkEv("subscribe_returned", c)>>
          /\ UNCHANGED <<hosts, seen, brokerSubs>>
       \/ /\ dpc[c] = "subscribe"
          /\ Dies(c)
          /\ UNCHANGED <<subscribed, recorded>>
    /\ UNCHANGED <<codec, channels, running, life, apc, connected,
                   wifi, rpc, i, cpc, replayed, attempts, failBroadcasts, resets, epoch,
                   ncmd>>

\* get_time. Times are counted in days of 86400 s, which keeps the 32-bit
\* NTP seconds field and NTP_DELTA = 3155673600 s (36524 days) within the
\* checker's integers; the threshold 16 * 365 * 24 * 3600 s is 16 * 365 days.
NTP_DELTA_DAYS == 36524
SanityThreshold == 16 * 365
\* the largest value of the reply's unsigned 32-bit field: (2^32 - 1) \div 86400
MaxNtpDays == 49710

\* what the environment decides during one get_time
LookupOutcomes == {"ok", "fail"}
SocketOutcomes == {"ok", "create_fail", "connect_fail", "write_fail", "read_fail"}
NtpValues == {0, NTP_DELTA_DAYS, NTP_DELTA_DAYS + SanityThreshold - 1,
              NTP_DELTA_DAYS + SanityThreshold, MaxNtpDays}

\* get_time from its call to its return or to the exception that leaves it.
\* in.conn: isconnected(); in.wan: wan_ok(); in.lookup: socket.getaddrinfo
\* (line 56) and in.sock = "create_fail": socket.socket (line 57), both before
\* the try; the other socket faults are OSErrors inside the try; in.val: the
\* unpacked field of the reply. sent: the datagram was written.
get_time(in) ==
    IF ~in.conn THEN [raised |-> FALSE, t |-> 0, sent |-> FALSE]
    ELSE IF ~in.wan THEN [raised |-> FALSE, t |-> 0, sent |-> FALSE]
    ELSE IF in.lookup = "fail" \/ in.sock = "create_fail"
    THEN [raised |-> TRUE, t |-> 0, sent |-> FALSE]
    ELSE LET t0 == IF in.sock = "ok" THEN in.val - NTP_DELTA_DAYS ELSE 0
         IN [raised |-> FALSE,
             t |-> IF t0 < SanityThreshold THEN 0 ELSE t0,
             sent |-> in.sock \in {"ok", "read_fail"}]

\* t = await self.get_time(), entered with the broker connected, then
\* channel.send(host, argformat(TIME, t)); an exception out of get_time
\* leaves from_channel
from_channel_time(c) ==
    /\ rpc = "idle"
    /\ dpc[c] = "time"
    /\ \E wan \in BOOLEAN, lookup \in LookupOutcomes, sock \in SocketOutcomes,
          val \in NtpValues :
          LET r == get_time([conn |-> TRUE, wan |-> wan, lookup |-> lookup,
                             sock |-> sock, val |-> val])
              pre == <<Ev("get_time", c, dcur[c].host, <<>>, <<>>, <<>>, FALSE, 0)>>
                     \o (IF r.sent THEN <<MarkEv("datagram", c)>> ELSE <<>>)
          IN IF r.raised
             THEN /\ dpc' = [dpc EXCEPT ![c] = "dead"]
                  /\ events' = pre \o <<MarkEv("raise", c)>>
             ELSE /\ dpc' = [dpc EXCEPT ![c] = "await"]
                  /\ events' = pre \o <<SendEv(c, dcur[c].host,
                                              argformat(<<StrV(<<TIME>>), IntV(r.t)>>))>>
    /\ dcur' = [dcur EXCEPT ![c] = NoCmd]
    /\ hosts' = ApplySends(hosts, events')
    /\ seen' = SeenAfter(seen, events')
    /\ UNCHANGED <<codec, recorded, channels, running, life, apc, subscriptions, brokerSubs, connected,
                   wifi, rpc, i, cpc, replayed, attempts, failBroadcasts, resets, epoch, ncmd, subscribed>>

(***************************************************************************)
(* conn_han: the replay of the registry after a connect.                   *)
(***************************************************************************)
\* the entry conn_han is at: for topic, items in ...items(): for channel, host, qos in items
EntryAt(subs, pos) == [topic |-> subs[pos.ti].topic, qos |-> subs[pos.ti].items[pos.ii].qos]

\* conn_han up to its first await self.subscribe(topic, qos), or to its end
conn_han_begin(subs) ==
    IF subs = <<>> THEN ConnIdle ELSE [pc |-> "sub", ti |-> 1, ii |-> 1]

\* the loops' next step after the entry at pos
conn_han_next(subs, pos) ==
    IF pos.ii < Len(subs[pos.ti].items) THEN [pc |-> "sub", ti |-> pos.ti, ii |-> pos.ii + 1]
    ELSE IF pos.ti < Len(subs) THEN [pc |-> "sub", ti |-> pos.ti + 1, ii |-> 1]
    ELSE ConnIdle

\* the subscribe call conn_han makes on reaching pos
ReplayCall(subs, pos) ==
    IF pos.pc = "sub"
    THEN <<SubscribeEv(EntryAt(subs, pos).topic, EntryAt(subs, pos).qos)>>
    ELSE <<>>
ReplayNote(subs, pos) == IF pos.pc = "sub" THEN <<EntryAt(subs, pos)>> ELSE <<>>

\* every (topic, qos) the registry holds, in iteration order
RECURSIVE AllEntries(_)
AllEntries(subs) ==
    IF subs = <<>> THEN <<>>
    ELSE [k \in 1..Len(Head(subs).items) |->
             [topic |-> Head(subs).topic, qos |-> Head(subs).items[k].qos]]
         \o AllEntries(Tail(subs))

\* await self.subscribe(topic, qos) in conn_han returns, or raises OSError
conn_han(ok) ==
    /\ rpc = "idle"
    /\ cpc.pc = "sub"
    /\ IF ok
       THEN /\ connected
            /\ brokerSubs' = brokerSubs \cup {EntryAt(subscriptions, cpc).topic}
            /\ cpc' = conn_han_next(subscriptions, cpc)
            /\ events' = <<MarkEv("replay_returned", "-")>> \o ReplayCall(subscriptions, cpc')
            /\ replayed' = replayed \o ReplayNote(subscriptions, cpc')
       ELSE /\ cpc' = ConnIdle
            /\ events' = <<MarkEv("raise", "-")>>
            /\ UNCHANGED <<brokerSubs, replayed>>
    /\ UNCHANGED <<codec, recorded, channels, running, hosts, life, seen, apc, subscriptions, connected,
                   wifi, rpc, i, dpc, dcur, attempts, failBroadcasts, resets, epoch, ncmd, subscribed>>

(***************************************************************************)
(* Connection supervisor: MQTTProxy.run.                                   *)
(***************************************************************************)
\* for channel in self.channels: asyncio.create_task(channel.start()), then the
\* loop's first asyncio.sleep(5)
run_begin ==
    /\ rpc = "init"
    /\ rpc' = "loop"
    /\ events' = <<MarkEv("run", "-")>>
    /\ UNCHANGED <<codec, recorded, channels, running, hosts, life, seen, apc, subscriptions, brokerSubs,
                   connected, wifi, i, cpc, replayed, dpc, dcur,
                   attempts, failBroadcasts, resets, epoch, ncmd, subscribed>>

\* the task channel.start() created by run
start_task(c) ==
    /\ rpc = "loop"
    /\ life[c] = "new"
    /\ running' = [running EXCEPT ![c] = TRUE]
    /\ life' = [life EXCEPT ![c] = "started"]
    /\ events' = <<MarkEv("start", c)>>
    /\ UNCHANGED <<hosts, seen, apc, proxyVars>>

\* the channel the name "channel" is bound to after run's first for loop
LastChannel == channels[Len(channels)]

\* run, lines 150-155: the two broadcasts, then the dispatcher tasks
AnnounceMutSpawnFirst(hs) ==
    [k \in 1..Len(channels) |-> MarkEv("spawn", channels[k])]
    \o <<BroadcastEv(Status(BROKER_OK))>> \o ChannelBroadcast(LastChannel, hs, Status(BROKER_OK))
    \o <<BroadcastEv(Status(RUNNING))>> \o ChannelBroadcast(LastChannel, hs, Status(RUNNING))
Announce(hs) ==
    <<BroadcastEv(Status(BROKER_OK))>> \o ChannelBroadcast(LastChannel, hs, Status(BROKER_OK))
    \o <<BroadcastEv(Status(RUNNING))>> \o ChannelBroadcast(LastChannel, hs, Status(RUNNING))
    \o [k \in 1..Len(channels) |-> MarkEv("spawn", channels[k])]

\* the except branch: if i == 1
LastTryMutOffByOne(n) == n = 0
LastTry(n) == n = 1

\* One pass of the loop: sleep(5), then await self.connect(). ok: connect
\* returns, and the client has called connect_coro; otherwise OSError. After
\* the break, or after the last pass if nothing stopped the program, run
\* goes on to line 150.
run_connect(ok) ==
    /\ rpc = "loop"
    /\ \A c \in Channels : life[c] # "new"
    /\ attempts' = attempts + 1
    /\ IF ok
       THEN /\ connected' = TRUE
            /\ cpc' = conn_han_begin(subscriptions)
            /\ replayed' = ReplayNote(subscriptions, cpc')
            /\ events' = <<MarkEv("connect", "-"), MarkEv("connect_returned", "-")>>
                         \o ReplayCall(subscriptions, cpc') \o Announce(hosts)
            /\ dpc' = [c \in Channels |-> "await"]
            /\ rpc' = "idle"
            /\ UNCHANGED <<i, failBroadcasts, resets>>
       ELSE /\ IF LastTry(i)
               THEN /\ events' = <<MarkEv("connect", "-"), MarkEv("connect_raised", "-"),
                                   BroadcastEv(Status(BROKER_FAIL))>>
                                 \o broadcast(channels, hosts, Status(BROKER_FAIL))
                                 \o <<MarkEv("machine_reset", "-")>>
                    /\ failBroadcasts' = failBroadcasts + 1
                    /\ resets' = resets + 1
                    /\ rpc' = "reset"
                    /\ UNCHANGED <<i, dpc>>
               ELSE IF i = 1
               THEN /\ events' = <<MarkEv("connect", "-"), MarkEv("connect_raised", "-")>>
                                 \o Announce(hosts)
                    /\ dpc' = [c \in Channels |-> "await"]
                    /\ rpc' = "idle"
                    /\ UNCHANGED <<i, failBroadcasts, resets>>
               ELSE /\ events' = <<MarkEv("connect", "-"), MarkEv("connect_raised", "-")>>
                    /\ i' = i - 1
                    /\ rpc' = "loop"
                    /\ UNCHANGED <<failBroadcasts, resets, dpc>>
            /\ UNCHANGED <<connected, cpc, replayed>>
    /\ hosts' = ApplySends(hosts, events')
    /\ seen' = SeenAfter(seen, events')
    /\ UNCHANGED <<codec, recorded, channels, running, life, apc, subscriptions, brokerSubs, wifi,
                   dcur, epoch, ncmd, subscribed>>

(***************************************************************************)
(* Callbacks the MQTT client makes.                                        *)
(***************************************************************************)
\* wifi_han(state)
wifi_han(state) ==
    /\ rpc \in {"loop", "idle"}
    /\ wifi # state
    /\ wifi' = state
    /\ events' = <<BroadcastEv(Status(IF state THEN WIFI_UP ELSE WIFI_DOWN))>>
                 \o broadcast(channels, hosts, Status(IF state THEN WIFI_UP ELSE WIFI_DOWN))
    /\ hosts' = ApplySends(hosts, events')
    /\ seen' = SeenAfter(seen, events')
    /\ UNCHANGED <<codec, recorded, channels, running, life, apc, subscriptions, brokerSubs, connected,
                   rpc, i, cpc, replayed, dpc, dcur, attempts, failBroadcasts,
                   resets, epoch, ncmd, subscribed>>

\* the sends subs_cb makes: for channel, host, qos in self.subscriptions[topic]
FanOutMutDropLast(subs, t, m, r) ==
    LET its == Items(subs, t) IN
    [k \in 1..(Len(its) - 1) |->
        SendEv(its[k].channel, its[k].host,
               argformat(<<StrV(<<SUBSCRIPTION>>), StrV(t), StrV(m), BoolV(r)>>))]
FanOut(subs, t, m, r) ==
    LET its == Items(subs, t) IN
    [k \in 1..Len(its) |->
        SendEv(its[k].channel, its[k].host,
               argformat(<<StrV(<<SUBSCRIPTION>>), StrV(t), StrV(m), BoolV(r)>>))]

\* subs_cb(topic, msg, retained): the broker delivers a message on a topic it
\* holds a subscription for. A topic that is no key of the registry: KeyError.
subs_cb(t, m, r) ==
    /\ rpc = "idle"
    /\ connected
    /\ t \in brokerSubs
    /\ events' = <<Ev("message", "-", "-", m, t, <<>>, r, 0)>>
                 \o (IF HasKey(subscriptions, t) THEN FanOut(subscriptions, t, m, r)
                     ELSE <<MarkEv("KeyError", "-")>>)
    /\ hosts' = ApplySends(hosts, events')
    /\ seen' = SeenAfter(seen, events')
    /\ UNCHANGED <<codec, recorded, channels, running, life, apc, subscriptions, brokerSubs, connected,
                   wifi, rpc, i, cpc, replayed, dpc, dcur, attempts, failBroadcasts,
                   resets, epoch, ncmd, subscribed>>

\* the broker connection is lost: the session and its subscriptions are gone
broker_loss ==
    /\ rpc = "idle"
    /\ connected
    /\ cpc.pc = "idle"
    /\ epoch < MaxReconnects
    /\ connected' = FALSE
    /\ brokerSubs' = {}
    /\ events' = <<MarkEv("broker_loss", "-")>>
    /\ UNCHANGED <<codec, recorded, channels, running, hosts, life, seen, apc, subscriptions, wifi, rpc,
                   i, cpc, replayed, dpc, dcur, attempts, failBroadcasts, resets, epoch, ncmd, subscribed>>

\* the client reconnects and calls connect_coro again
reconnectMutRespawn ==
    /\ rpc = "idle"
    /\ ~connected
    /\ connected' = TRUE
    /\ epoch' = epoch + 1
    /\ cpc' = conn_han_begin(subscriptions)
    /\ replayed' = ReplayNote(subscriptions, cpc')
    /\ events' = <<MarkEv("reconnect", "-")>> \o ReplayCall(subscriptions, cpc')
                 \o [k \in 1..Len(channels) |-> MarkEv("spawn", channels[k])]
    /\ UNCHANGED <<codec, recorded, channels, running, hosts, life, seen, apc,
                   subscriptions, brokerSubs, wifi, rpc, i, dpc, dcur, attempts,
                   failBroadcasts, resets, ncmd, subscribed>>
reconnect ==
    /\ rpc = "idle"
    /\ ~connected
    /\ connected' = TRUE
    /\ epoch' = epoch + 1
    /\ cpc' = conn_han_begin(subscriptions)
    /\ replayed' = ReplayNote(subscriptions, cpc')
    /\ events' = <<MarkEv("reconnect", "-")>> \o ReplayCall(subscriptions, cpc')
    /\ UNCHANGED <<codec, recorded, channels, running, hosts, life, seen, apc, subscriptions, brokerSubs,
                   wifi, rpc, i, dpc, dcur, attempts, failBroadcasts, resets, ncmd, subscribed>>

Next ==
    \/ run_begin
    \/ \E c \in Channels : start_task(c)
    \/ \E ok \in BOOLEAN : run_connect(ok)
    \/ \E ok \in BOOLEAN : conn_han(ok)
    \/ \E state \in BOOLEAN : wifi_han(state)
    \/ \E c \in Channels : from_channel_recv(c)
    \/ \E c \in Channels : from_channel_publish(c)
    \/ \E c \in Channels : from_channel_subscribe(c)
    \/ \E c \in Channels : from_channel_time(c)
    \/ \E t \in Topics : subs_cb(t, <<"m">>, FALSE)
    \/ broker_loss
    \/ reconnect

Spec == Init /\ [][Next]_vars

(***************************************************************************)
(* The same program with its channels given in either order and hosts that *)
(* send only SUBSCRIBE commands (SpecSubs): room for one more command.     *)
(***************************************************************************)
\* most SUBSCRIBE commands the hosts send
MaxSubscribes == 3
SubscribeWires == {W_SUB1, W_SUB2}

\* MQTTProxy(channels, config): the two channels in either order
InitAnyOrder ==
    /\ channels \in { <<"espnow", "syncom">>, <<"syncom", "espnow">> }
    /\ codec = NoCodec
    /\ InitRest

NextSubs ==
    \/ run_begin
    \/ \E c \in Channels : start_task(c)
    \/ \E ok \in BOOLEAN : run_connect(ok)
    \/ \E ok \in BOOLEAN : conn_han(ok)
    \/ \E c \in Channels : from_channel_recv_of(c, SubscribeWires, MaxSubscribes)
    \/ \E c \in Channels : from_channel_subscribe(c)
    \/ broker_loss
    \/ reconnect

SpecSubs == InitAnyOrder /\ [][NextSubs]_vars

(***************************************************************************)
(* The codec on its own (SpecCodec): argformat applied to a verb and a     *)
(* list of values, then split applied to the result as from_channel does.  *)
(***************************************************************************)
\* most arguments after the verb
MaxArgs == 3
CodecVerbs == { <<STATUS>>, <<TIME>>, <<SUBSCRIPTION>> }
\* the kinds of value the proxy formats: str (one with the separator in it),
\* int, bool
CodecValues == {StrV(<<>>), StrV(<<"a">>), StrV(<<"a", SEP, "b">>),
                IntV(0), IntV(105), BoolV(TRUE), BoolV(FALSE)}
ArgLists == UNION {[1..n -> CodecValues] : n \in 0..MaxArgs}

InitCodec ==
    /\ channels = <<"espnow", "syncom">>
    /\ \E v \in CodecVerbs, a \in ArgLists :
          codec = [stage |-> "input", verb |-> v, args |-> a,
                   wire |-> <<>>, fields |-> <<>>]
    /\ InitRest

codecRest == <<channels, running, hosts, life, seen, apc, subscriptions, brokerSubs,
               connected, wifi, rpc, i, cpc, replayed, dpc, dcur, events,
               attempts, failBroadcasts, resets, epoch, ncmd, subscribed, recorded>>

\* argformat(verb, a1, a2, ...)
encode ==
    /\ codec.stage = "input"
    /\ codec' = [codec EXCEPT !.stage = "encoded",
                              !.wire = argformat(<<StrV(codec.verb)>> \o codec.args)]
    /\ UNCHANGED codecRest

\* s = istr.split(SEP)
decode ==
    /\ codec.stage = "encoded"
    /\ codec' = [codec EXCEPT !.stage = "decoded", !.fields = split(codec.wire)]
    /\ UNCHANGED codecRest

NextCodec == encode \/ decode

SpecCodec == InitCodec /\ [][NextCodec]_vars

(***************************************************************************)
(* Properties.                                                             *)
(***************************************************************************)
EvAt(e) == {k \in 1..Len(events) : events[k].ev = e}
SendsAt == EvAt("send")
IsBroadcastOf(k, code) ==
    events[k].ev = "broadcast" /\ events[k].msg = <<STATUS, SEP, code>>
Received == events # <<>> /\ events[1].ev = "recv"

C3_BoundedRetry ==
    /\ attempts <= RetryBudget
    /\ rpc = "loop" => attempts < RetryBudget /\ ~connected
    /\ rpc = "reset" =>
          /\ attempts = RetryBudget
          /\ ~connected
          /\ failBroadcasts = 1
          /\ resets = 1
          /\ \E a \in 1..Len(events), b \in 1..Len(events) :
                /\ a < b
                /\ IsBroadcastOf(a, BROKER_FAIL)
                /\ events[b].ev = "machine_reset"
                /\ b = Len(events)
    /\ rpc # "reset" => failBroadcasts = 0 /\ resets = 0
    /\ rpc = "loop" => attempts = RetryBudget - i
    /\ rpc = "idle" => attempts >= 1
    /\ (Len(events) >= 2 /\ events[1].ev = "connect" /\ events[2].ev = "connect_raised")
          => (rpc = "reset" <=> attempts = RetryBudget) /\ rpc \in {"loop", "reset"}
    /\ (Len(events) >= 2 /\ events[1].ev = "connect" /\ events[2].ev = "connect_returned")
          => rpc = "idle"

\* C3 witness: the twelfth attempt failed and the device was reset
C3_Witness == rpc = "reset" /\ attempts = RetryBudget /\ resets = 1

\* C4 (as claimed): no dispatcher loop ever ends
C4_LoopContained == \A c \in Channels : dpc[c] # "dead"

\* C5: the dispatcher loops are started, and commands handled, only after run's
\* connect has returned, the replay has covered the registry and BROKER_OK, then
\* RUNNING, have been broadcast, in that order.
C5_StartupOrder ==
    /\ (ncmd > 0 \/ \E c \in Channels : dpc[c] # "unstarted") => rpc = "idle"
    /\ \A k \in EvAt("spawn") :
          /\ connected
          /\ replayed = AllEntries(subscriptions)
          /\ \E a \in 1..Len(events), b \in 1..Len(events), d \in 1..Len(events) :
                /\ a < b /\ b < d /\ d < k
                /\ events[a].ev = "connect_returned"
                /\ IsBroadcastOf(b, BROKER_OK)
                /\ IsBroadcastOf(d, RUNNING)
                /\ \A j \in EvAt("subscribe") : a < j /\ j < b
                /\ \A j \in SendsAt : j > b

\* C5 witness: the loops have just been started
C5_Witness ==
    /\ EvAt("spawn") = {k \in 1..Len(events) : k > Len(events) - Cardinality(Channels)}
    /\ \A c \in Channels : dpc[c] = "await"

NoDuplicates(hs) == \A a \in 1..Len(hs), b \in 1..Len(hs) : hs[a] = hs[b] => a = b

\* C6 (as claimed): on every channel a host is in the host list iff the channel
\* has observed it, and at most once
C6_MembershipAsClaimed ==
    \A c \in Channels :
        /\ Range(hosts[c]) = seen[c]
        /\ NoDuplicates(hosts[c])

\* C6 (amended): a ChannelESPNow's host list holds exactly the hosts the channel
\* has observed; a ChannelSynCom's host list is the one sentinel, whatever it
\* observes; both hold each host once, never shrink, and are left unchanged by a
\* send to, or a message from, a host they hold.
C6_Membership ==
    /\ [](\A c \in Channels :
            /\ IsESPNow(c) => Range(hosts[c]) = seen[c]
            /\ ~IsESPNow(c) => hosts[c] = <<SynComHost>>
            /\ NoDuplicates(hosts[c]))
    /\ [][\A c \in Channels :
            /\ Len(hosts'[c]) >= Len(hosts[c])
            /\ SubSeq(hosts'[c], 1, Len(hosts[c])) = hosts[c]
            /\ (seen'[c] \subseteq Range(hosts[c])) => hosts'[c] = hosts[c]]_vars

\* C6 witness: sends to a new host, a known host and the wired channel's
\* argument host have all happened
C6_Witness ==
    /\ hosts["espnow"] = <<"h3", "h1">>
    /\ events = <<SendEv("espnow", "h3", <<"obj">>)>>
    /\ "h3" \in seen["syncom"]

\* C7 (as claimed): PUBLISH,topic,payload,retain,qos calls publish with that
\* topic and payload, retain false for "0" and true for "1", qos the integer;
\* STATUS,PUBOK goes to the sender, after publish has returned
C7_PublishTranslation ==
    /\ (Received /\ EvAt("publish") # {}) =>
          LET s == split(events[1].msg)
              call == events[2]
          IN /\ call.ev = "publish"
             /\ call.topic = s[2]
             /\ call.payload = s[3]
             /\ s[4] = <<"0">> => call.retain = FALSE
             /\ s[4] = <<"1">> => call.retain = TRUE
             /\ call.qos = (CHOOSE n \in 0..9 : <<DigitAtom[n + 1]>> = s[5])
    /\ \A k \in SendsAt :
          events[k].msg = <<STATUS, SEP, PUBOK>> =>
              /\ k = 2
              /\ events[1].ev = "publish_returned"
              /\ events[1].ch = events[k].ch

C9_NoDuplicateEntries ==
    \A k \in 1..Len(subscriptions) :
        LET its == subscriptions[k].items IN
        \A a \in 1..Len(its), b \in 1..Len(its) :
            (its[a].channel = its[b].channel /\ its[a].host = its[b].host) => a = b

C11_SendAbsorbsFault ==
    \A k \in EvAt("transport_fault") :
        /\ events[Len(events)].ev = "send_returned"
        /\ \E j \in EvAt("iface_active") : j > k
        /\ EvAt("send_raised") = {}

\* C12 (as claimed): a TIME command always gets one reply TIME,<t> to its
\* sender, t being 0 or at least the sanity threshold; get_time raises nothing
\* whatever the lookup, the socket and the reply do; and with the broker not
\* connected the reply is TIME,0 and no datagram is sent
C12_TimeNeverFatal ==
    /\ (events # <<>> /\ events[1].ev = "get_time") =>
          LET last == events[Len(events)] IN
          /\ EvAt("raise") = {}
          /\ Cardinality(SendsAt) = 1
          /\ last.ev = "send"
          /\ last.ch = events[1].ch
          /\ last.host = events[1].host
          /\ Len(split(last.msg)) = 2
          /\ split(last.msg)[1] = <<TIME>>
          /\ IsInt(split(last.msg)[2])
          /\ int(split(last.msg)[2]) = 0 \/ int(split(last.msg)[2]) >= SanityThreshold
    /\ (Received /\ events[1].msg = <<TIME>> /\ ~connected) =>
          /\ Len(events) = 2
          /\ events[2] = SendEv(events[1].ch, events[1].host, <<TIME, SEP, "0">>)

\* C13 (as claimed): after run's connect has returned, every host in the host
\* list of every channel is sent STATUS,BROKER_OK and then STATUS,RUNNING,
\* before any dispatcher loop is started
C13_ConnectAnnouncement ==
    \A k \in EvAt("connect_returned") :
        \A c \in Channels : \A n \in 1..Len(hosts[c]) :
            \E a \in SendsAt, b \in SendsAt :
                /\ k < a /\ a < b
                /\ events[a] = SendEv(c, hosts[c][n], Status(BROKER_OK))
                /\ events[b] = SendEv(c, hosts[c][n], Status(RUNNING))
                /\ \A j \in EvAt("spawn") : b < j

\* C14: when no argument's string holds the separator, splitting
\* argformat(verb, a1, ..., an) on the separator gives the verb followed by the
\* strings of a1, ..., an, in order and nothing else
C14_CodecRoundTrip ==
    (/\ codec.stage = "decoded"
     /\ \A k \in 1..Len(codec.args) : SEP \notin Range(Format(codec.args[k])))
    => /\ Len(codec.fields) = 1 + Len(codec.args)
       /\ codec.fields[1] = codec.verb
       /\ \A k \in 1..Len(codec.args) : codec.fields[k + 1] = Format(codec.args[k])

\* C14 witness: STATUS with an empty string, an int and a bool went through
C14_Witness ==
    /\ codec.stage = "decoded"
    /\ codec.verb = <<STATUS>>
    /\ codec.args = <<StrV(<<>>), IntV(105), BoolV(TRUE)>>
    /\ codec.wire = <<STATUS, SEP, SEP, "1", "0", "5", SEP, "True">>
    /\ codec.fields = << <<STATUS>>, <<>>, <<"1", "0", "5">>, <<"True">> >>

WifiCodes == {Status(WIFI_UP), Status(WIFI_DOWN)}

SpawnsOf(evs, c) == {k \in 1..Len(evs) : evs[k].ev = "spawn" /\ evs[k].ch = c}

\* C16: each channel's dispatcher loop is started once, by run after its
\* connect, and never again: not by a broker loss, not by a reconnect. A loop
\* is started only in the step that takes run out of its connect loop, one
\* task per channel, for a channel that had none; a channel that has a loop
\* started is never without one again.
C16_LoopsStartedOnce ==
    /\ [](\A c \in Channels : (dpc[c] # "unstarted") <=> (rpc = "idle"))
    /\ [][\A c \in Channels :
            /\ (events' # events /\ SpawnsOf(events', c) # {})
                  => /\ Cardinality(SpawnsOf(events', c)) = 1
                     /\ dpc[c] = "unstarted"
                     /\ rpc = "loop" /\ rpc' = "idle"
            /\ (dpc[c] = "unstarted" /\ dpc'[c] # "unstarted")
                  => SpawnsOf(events', c) # {}
            /\ (dpc[c] # "unstarted") => (dpc'[c] # "unstarted")
            /\ (rpc = "idle") => (rpc' = "idle")]_vars

\* C16 witness: the broker was lost and the client has reconnected, with the
\* loops started before
C16_Witness ==
    /\ epoch = 1
    /\ connected
    /\ events # <<>>
    /\ events[1].ev = "reconnect"
    /\ \A c \in Channels : dpc[c] # "unstarted"

\* the first event of a step made by a dispatcher loop
DispatcherSteps == {"recv", "publish_returned", "suback", "subscribe_returned", "get_time"}

\* C17 (as claimed): on a STATUS command the dispatcher sends the connectivity
\* state (Wi-Fi first) to the (channel, host) the command came from and to
\* nobody else, and leaves the registry, the connectivity state and every host
\* list (as the receipt left them) unchanged; no dispatcher step writes the
\* connectivity state
C17_StatusNoSideEffects ==
    [][/\ (events' # <<>> /\ events' # events /\ events'[1].ev = "recv"
           /\ events'[1].msg = <<STATUS>>)
             => LET c == events'[1].ch
                    h == events'[1].host
                IN /\ Len(events') >= 2
                   /\ events'[2] = SendEv(c, h, Status(IF wifi THEN WIFI_UP ELSE WIFI_DOWN))
                   /\ \A k \in 2..Len(events') :
                         /\ events'[k].ev = "send"
                         /\ events'[k].ch = c
                         /\ events'[k].host = h
                   /\ subscriptions' = subscriptions
                   /\ brokerSubs' = brokerSubs
                   /\ hosts' = [hosts EXCEPT ![c] = AwaitObjHosts(c, @, h)]
       /\ (events' # <<>> /\ events' # events /\ events'[1].ev \in DispatcherSteps)
             => (connected' = connected /\ wifi' = wifi)
      ]_vars

\* C18: the registry has a list for a topic only once a broker subscribe call
\* for it has returned: the registry changes only in the step in which a
\* dispatcher's subscribe call, accepted by the broker, returns, and then by
\* one entry (that topic, that channel and host) added at the end of the
\* topic's list; a SUBSCRIBE whose call raises records nothing; and no step,
\* broker loss and reconnect included, removes or changes a recorded entry.
C18_RegistryEntries ==
    /\ [](\A k \in 1..Len(subscriptions) :
            /\ subscriptions[k].items # <<>>
            /\ \A n \in 1..Len(subscriptions[k].items) :
                  <<subscriptions[k].topic, subscriptions[k].items[n].channel,
                    subscriptions[k].items[n].host>> \in subscribed)
    /\ [][/\ \A k \in 1..Len(subscriptions) :
               /\ Len(subscriptions') >= k
               /\ subscriptions'[k].topic = subscriptions[k].topic
               /\ Len(subscriptions'[k].items) >= Len(subscriptions[k].items)
               /\ SubSeq(subscriptions'[k].items, 1, Len(subscriptions[k].items))
                    = subscriptions[k].items
          /\ (subscriptions' # subscriptions) =>
                \E c \in Channels :
                   /\ dpc[c] = "suback"
                   /\ events' = <<MarkEv("subscribe_returned", c)>>
                   /\ Len(AllEntries(subscriptions')) = Len(AllEntries(subscriptions)) + 1
                   /\ LET its == Items(subscriptions', dcur[c].s[2]) IN
                      its[Len(its)] = Item(c, dcur[c].host, int(dcur[c].s[3]))
          /\ (\E c \in Channels : dpc[c] = "subscribe" /\ dpc'[c] = "dead")
                => subscriptions' = subscriptions
          ]_vars

\* C18 witness: one SUBSCRIBE was recorded, another one's broker call raised,
\* and the entry is there after a broker loss and a reconnect
C18_Witness ==
    /\ Len(AllEntries(subscriptions)) = 1
    /\ epoch = 1
    /\ connected
    /\ ncmd = 2
    /\ events = <<MarkEv("raise", "syncom")>>
    /\ dpc["syncom"] = "dead"

\* C19 (as claimed): while a replay is part-way through the registry,
\* suspended in one of its broker subscribe calls, no step changes the registry
C19_NoMutationDuringReplay ==
    [][(cpc.pc = "sub") => (subscriptions' = subscriptions)]_vars

IsPrefix(a, b) == Len(a) <= Len(b) /\ SubSeq(b, 1, Len(a)) = a

\* C20 (as claimed): the subscribe calls a replay has made so far are, call by
\* call, the recorded entries' (topic, qos) in the order the SUBSCRIBE commands
\* recorded them, and a replay that has run to its end has made one call for
\* every recorded entry
C20_ReplayOrder ==
    /\ IsPrefix(replayed, recorded)
    /\ (events # <<>> /\ events[Len(events)].ev = "replay_returned")
          => replayed = recorded

\* C21 (as claimed): when the broker delivers a message on topic t, the
\* registry has a list for t, so subs_cb raises no KeyError, and the message
\* is sent to every host whose SUBSCRIBE for t the broker has accepted, those
\* whose dispatcher is still suspended in the subscribe call included
C21_NoDeliveryGap ==
    (events # <<>> /\ events[1].ev = "message") =>
        LET t == events[1].topic IN
        /\ HasKey(subscriptions, t)
        /\ EvAt("KeyError") = {}
        /\ \A c \in Channels :
              (dpc[c] = "suback" /\ dcur[c].s[2] = t)
                => \E k \in SendsAt : events[k].ch = c /\ events[k].host = dcur[c].host

====
